---- MODULE Spec2Model ----
(***************************************************************************)
(* A model of client/veldera/src/vehicle/analyze_telemetry.py: the         *)
(* telemetry detectors (find_launches, find_high_velocity,                 *)
(* find_force_spikes, get_context), the three reporters and main().        *)
(*                                                                         *)
(* Numbers are fixed-point integers:                                       *)
(*   times (t, --around, --window)   tenths of a second  (0.3 s = 3)       *)
(*   forces (hover_mag, weight)      centinewtons        (9.81 N = 981)    *)
(*   v_vel, altitude, mass           m/s, m, kg                            *)
(* A nullable value (a polars null, a Python None) is a sequence: << >> is *)
(* null and <<x>> is the value x.                                          *)
(* The table has the columns t, altitude, v_vel, grounded, hover_mag and   *)
(* mass; speed and pitch_deg only feed printed maxima and are left out.    *)
(* A printed block is one record of `out`: its tag and the numbers the     *)
(* block reports.                                                          *)
(***************************************************************************)
EXTENDS Integers, Sequences, FiniteSets, TLC

VARIABLES fs, argv, args, df, loaded, pc, out, status, error, ran, call, ret

vars == <<fs, argv, args, df, loaded, pc, out, status, error, ran, call, ret>>

\* ------------------------------------------------------------------ bounds
MaxRows == 2

\* --------------------------------------------------------------- constants
\* 9.81 (m/s^2), in centinewtons per kilogram
Gravity == 981
\* find_launches(df, v_vel_threshold=10.0)
LaunchDefault == 10
\* find_force_spikes(df, weight, ratio_threshold=3.0)
RatioDefault == 3
\* get_context(df, time, window=0.5), --window default=0.5
WindowDefault == 5
\* print_summary / print_problem_context: find_high_velocity(df, 15.0)
HighVelArg == 15
\* print_summary / print_problem_context: find_force_spikes(df, weight, 5.0)
RatioArg == 5
\* print_summary: find_launches(df, 10.0)
LaunchArg == 10
\* print_problem_context: get_context(df, first_time, window=0.3)
ContextWindow == 3

\* ------------------------------------------------------------------ values
None == << >>

Some(x) == <<x>>

Columns == {"t", "altitude", "v_vel", "grounded", "hover_mag", "mass"}

Row(t, altitude, v_vel, grounded, hover_mag, mass) ==
  [t |-> t, altitude |-> altitude, v_vel |-> v_vel, grounded |-> grounded,
   hover_mag |-> hover_mag, mass |-> mass]

\* One printed block.
Line(tag, n, total, time, window, rows) ==
  [tag |-> tag, path |-> "", n |-> n, total |-> total, time |-> time,
   window |-> window, rows |-> rows]

Tag(tag) == Line(tag, 0, 0, 0, 0, << >>)

ErrorLine(path) == [Tag("ERROR") EXCEPT !.path = path]

\* The outcome of a reporter: what it printed and the exception it raised.
Printed(lines) == [lines |-> lines, error |-> "none"]

Raised(lines, exc) == [lines |-> lines, error |-> exc]

\* --------------------------------------------------------------- detectors
\* Mutant of Diff: the first row's delta is taken against 0 (diff with a fill).
Diff_FillZero(d, i) ==
  IF i = 1 THEN Some(d[1].v_vel) ELSE Some(d[i].v_vel - d[i - 1].v_vel)

\* pl.col("v_vel").diff(): null for the first row, v_vel[i] - v_vel[i-1] after.
Diff(d, i) == IF i = 1 THEN None ELSE Some(d[i].v_vel - d[i - 1].v_vel)

\* df.with_columns(pl.col("v_vel").diff().alias("v_vel_delta"))
WithDelta(d) ==
  [i \in 1..Len(d) |->
     [c \in Columns \cup {"v_vel_delta"} |->
        IF c = "v_vel_delta" THEN Diff(d, i) ELSE d[i][c]]]

\* A comparison with null is null, and filter() drops the row.
find_launches(d, v_vel_threshold) ==
  LET keep(r) == r.v_vel_delta # None /\ r.v_vel_delta[1] > v_vel_threshold
  IN  SelectSeq(WithDelta(d), keep)

find_high_velocity(d, v_vel_threshold) ==
  LET keep(r) == r.v_vel > v_vel_threshold
  IN  SelectSeq(d, keep)

\* Mutant of find_force_spikes: >= in place of >.
find_force_spikes_AtLeast(d, weight, ratio_threshold) ==
  LET keep(r) == r.hover_mag >= weight * ratio_threshold
  IN  SelectSeq(d, keep)

find_force_spikes(d, weight, ratio_threshold) ==
  LET keep(r) == r.hover_mag > weight * ratio_threshold
  IN  SelectSeq(d, keep)

\* Mutant of get_context: the upper bound is exclusive.
get_context_HalfOpen(d, time, window) ==
  LET keep(r) == r.t >= time - window /\ r.t < time + window
  IN  SelectSeq(d, keep)

get_context(d, time, window) ==
  LET keep(r) == r.t >= time - window /\ r.t <= time + window
  IN  SelectSeq(d, keep)

\* context.select(cols)
Select(rows, cols) == [i \in 1..Len(rows) |-> [c \in cols |-> rows[i][c]]]

\* --------------------------------------------------------------- reporters
\* Mutant of Weight: the mass of the first row, df["mass"].item(0).
Weight_FirstRow(d) == d[1].mass * Gravity

\* df["mass"].item(-1) * 9.81
Weight(d) == d[Len(d)].mass * Gravity

\* print_summary, "--- Altitude ---": the valid statistics are printed only
\* when some row has altitude > 0; the no-raycast line counts altitude < 0.
AltitudeBlock(d) ==
  LET valid(r) == r.altitude > 0
      miss(r) == r.altitude < 0
      valid_alt == SelectSeq(d, valid)
      no_raycast == SelectSeq(d, miss)
  IN  <<Tag("ALTITUDE")>>
      \o (IF Len(valid_alt) > 0
            THEN <<Line("ALT_STATS", Len(valid_alt), Len(d), 0, 0, << >>)>>
            ELSE << >>)
      \o <<Line("NO_RAYCAST", Len(no_raycast), Len(d), 0, 0, << >>)>>

\* Mutant of ProblemDetection: the launch deltas are reported before the
\* force spikes.
ProblemDetection_LaunchesFirst(d, weight) ==
  LET high_vvel == find_high_velocity(d, HighVelArg)
      force_spikes == find_force_spikes(d, weight, RatioArg)
      launches == find_launches(d, LaunchArg)
  IN  <<Tag("PROBLEM_DETECTION")>>
      \o (IF Len(high_vvel) > 0
            THEN <<Line("HIGH_VVEL", Len(high_vvel), Len(d), high_vvel[1].t, 0,
                        <<high_vvel[1]>>)>>
            ELSE << >>)
      \o (IF Len(launches) > 0
            THEN <<Line("VELOCITY_SPIKES", Len(launches), Len(d), 0, 0, << >>)>>
            ELSE << >>)
      \o (IF Len(force_spikes) > 0
            THEN <<Line("FORCE_SPIKES", Len(force_spikes), Len(d),
                        force_spikes[1].t, 0, <<force_spikes[1]>>)>>
            ELSE << >>)

\* print_summary, "--- PROBLEM DETECTION ---"
ProblemDetection(d, weight) ==
  LET high_vvel == find_high_velocity(d, HighVelArg)
      force_spikes == find_force_spikes(d, weight, RatioArg)
      launches == find_launches(d, LaunchArg)
  IN  <<Tag("PROBLEM_DETECTION")>>
      \o (IF Len(high_vvel) > 0
            THEN <<Line("HIGH_VVEL", Len(high_vvel), Len(d), high_vvel[1].t, 0,
                        <<high_vvel[1]>>)>>
            ELSE << >>)
      \o (IF Len(force_spikes) > 0
            THEN <<Line("FORCE_SPIKES", Len(force_spikes), Len(d),
                        force_spikes[1].t, 0, <<force_spikes[1]>>)>>
            ELSE << >>)
      \o (IF Len(launches) > 0
            THEN <<Line("VELOCITY_SPIKES", Len(launches), Len(d), 0, 0, << >>)>>
            ELSE << >>)

print_summary(d) ==
  LET header == <<Tag("HEADER")>>
      grounded(r) == r.grounded = 1
      on_ground == SelectSeq(d, grounded)
  IN  IF Len(d) = 0
        THEN \* df["mass"].item(-1) on an empty column
             Raised(header, "IndexError")
        ELSE
          LET weight == Weight(d)
              upto_forces ==
                header
                \o <<Line("TIME_RANGE", Len(d), Len(d), 0, 0, << >>)>>
                \o AltitudeBlock(d)
                \o <<Tag("VELOCITY")>>
                \o <<Tag("FORCES")>>
          IN  IF weight = 0
                THEN \* df['hover_mag'].max() / weight
                     Raised(upto_forces, "ZeroDivisionError")
                ELSE IF Len(on_ground) = 0
                  THEN \* f"{None:.0f}": the mean of no rows is None
                       Raised(upto_forces, "TypeError")
                  ELSE Printed(upto_forces
                               \o <<Line("GROUNDED", Len(on_ground), Len(d), 0, 0, << >>)>>
                               \o ProblemDetection(d, weight))

AroundCols == {"t", "altitude", "v_vel", "grounded", "hover_mag", "pitch_deg", "speed"}

print_around_time(d, time, window) ==
  LET context == get_context(d, time, window)
  IN  IF Len(context) = 0
        THEN Printed(<<Line("NO_DATA", 0, 0, time, window, << >>)>>)
        ELSE Printed(<<Line("AROUND", Len(context), Len(d), time, window,
                            Select(context, AroundCols \cap Columns))>>)

ContextCols == {"t", "altitude", "v_vel", "grounded", "hover_mag"}

\* Mutant of FirstTime: the last matching row, high_vvel["t"].item(-1).
FirstTime_Last(matches) == matches[Len(matches)].t

\* The row whose time centres a context section: high_vvel["t"].item(0)
FirstTime(matches) == matches[1].t

ContextSection(d, tag, matches) ==
  IF Len(matches) > 0
    THEN LET first_time == FirstTime(matches)
             context == get_context(d, first_time, ContextWindow)
         IN  <<Line(tag, Len(context), Len(d), first_time, ContextWindow,
                    Select(context, ContextCols))>>
    ELSE << >>

print_problem_context(d) ==
  IF Len(d) = 0
    THEN Raised(<< >>, "IndexError")
    ELSE LET weight == Weight(d)
         IN  Printed(ContextSection(d, "CTX_HIGH", find_high_velocity(d, HighVelArg))
                     \o ContextSection(d, "CTX_SPIKE",
                                       find_force_spikes(d, weight, RatioArg)))

\* ------------------------------------------------------------------ inputs
ExistingPath == "telemetry.csv"

Paths == {ExistingPath, "missing.csv"}

\* argparse: file, --summary, --context, --around <float>, --window <float>
Argvs ==
  [file : Paths, summary : BOOLEAN, context : BOOLEAN,
   around : {None, Some(0), Some(2)}, window : {1, WindowDefault}]

TablesOver(rows) == UNION {[1..n -> rows] : n \in 0..MaxRows}

\* Rows that differ in what the detectors of the summary look at.
RowsDetect ==
  {Row(0, 5, v, 1, h, m) : v \in {0, 16}, h \in {0, 3000, 5000}, m \in {1, 2}}

\* Rows that differ in altitude (-1 is the no-raycast sentinel) and mass.
RowsAlt == {Row(0, a, 0, 1, 0, m) : a \in {-1, 0, 5}, m \in {0, 1}}

\* Rows that differ in time, vertical velocity and hover force.
RowsCtx == {Row(t, 5, v, 1, h, 1) : t \in {0, 2, 5}, v \in {0, 16}, h \in {0, 5000}}

\* Rows that differ in the grounded flag and in altitude.
RowsGround == {Row(0, a, 0, g, 0, 1) : a \in {-1, 5}, g \in {0, 1}}

Tables ==
  TablesOver(RowsDetect) \cup TablesOver(RowsCtx) \cup TablesOver(RowsGround)

NoCall == [fn |-> "", a |-> 0, b |-> 0]

\* -------------------------------------------------------------------- main
\* The process starts with the command line parsed and nothing read.
InitWith(tables) ==
  /\ fs \in [{ExistingPath} -> tables]
  /\ argv \in Argvs
  /\ args = argv
  /\ df = << >>
  /\ loaded = FALSE
  /\ pc = "start"
  /\ out = << >>
  /\ status = -1
  /\ error = "none"
  /\ ran = << >>
  /\ call = NoCall
  /\ ret = << >>

Init == InitWith(Tables)

InitAlt == InitWith(TablesOver(RowsAlt))

\* Python truthiness of the elements of any([...]): a bool is itself, None
\* and the float 0.0 are false, every other float is true.
Truthy(opt) == opt # None /\ opt[1] # 0

\* any([args.summary, args.context, args.around])
AnyAction(a) == a.summary \/ a.context \/ Truthy(a.around)

\* Mutant of Main_CheckFile: the error is printed but sys.exit(1) is missing.
Main_CheckFile_NoExit ==
  /\ pc = "start"
  /\ pc' = "load"
  /\ out' = IF args.file \notin DOMAIN fs
              THEN Append(out, ErrorLine(args.file))
              ELSE out
  /\ UNCHANGED <<fs, argv, args, df, loaded, status, error, ran, call, ret>>

\* if not args.file.exists(): print(...); sys.exit(1)
Main_CheckFile ==
  /\ pc = "start"
  /\ IF args.file \notin DOMAIN fs
       THEN /\ out' = Append(out, ErrorLine(args.file))
            /\ status' = 1
            /\ error' = "SystemExit"
            /\ pc' = "exit"
       ELSE /\ pc' = "load"
            /\ UNCHANGED <<out, status, error>>
  /\ UNCHANGED <<fs, argv, args, df, loaded, ran, call, ret>>

\* df = load_telemetry(args.file); reading a missing file raises.
Main_Load ==
  /\ pc = "load"
  /\ ran' = Append(ran, "load_telemetry")
  /\ IF args.file \in DOMAIN fs
       THEN /\ df' = fs[args.file]
            /\ loaded' = TRUE
            /\ pc' = "default"
            /\ UNCHANGED <<status, error>>
       ELSE /\ status' = 1
            /\ error' = "FileNotFoundError"
            /\ pc' = "exit"
            /\ UNCHANGED <<df, loaded>>
  /\ UNCHANGED <<fs, argv, args, out, call, ret>>

\* if not any([...]): args.summary = True; args.context = True
Main_Default ==
  /\ pc = "default"
  /\ args' = IF ~AnyAction(args)
               THEN [args EXCEPT !.summary = TRUE, !.context = TRUE]
               ELSE args
  /\ pc' = "summary"
  /\ UNCHANGED <<fs, argv, df, loaded, out, status, error, ran, call, ret>>

\* A reporter runs to its end or dies of an uncaught exception (exit status 1).
Report(name, r, next) ==
  /\ ran' = Append(ran, name)
  /\ out' = out \o r.lines
  /\ IF r.error = "none"
       THEN /\ pc' = next
            /\ UNCHANGED <<status, error>>
       ELSE /\ pc' = "exit"
            /\ status' = 1
            /\ error' = r.error

Skip(next) ==
  /\ pc' = next
  /\ UNCHANGED <<ran, out, status, error>>

\* if args.summary: print_summary(df)
Main_Summary ==
  /\ pc = "summary"
  /\ IF args.summary
       THEN Report("print_summary", print_summary(df), "context")
       ELSE Skip("context")
  /\ UNCHANGED <<fs, argv, args, df, loaded, call, ret>>

\* if args.context: print_problem_context(df)
Main_Context ==
  /\ pc = "context"
  /\ IF args.context
       THEN Report("print_problem_context", print_problem_context(df), "around")
       ELSE Skip("around")
  /\ UNCHANGED <<fs, argv, args, df, loaded, call, ret>>

\* if args.around is not None: print_around_time(df, args.around, args.window)
Main_Around ==
  /\ pc = "around"
  /\ IF args.around # None
       THEN Report("print_around_time",
                   print_around_time(df, args.around[1], args.window), "return")
       ELSE Skip("return")
  /\ UNCHANGED <<fs, argv, args, df, loaded, call, ret>>

\* main() returns and the interpreter exits with status 0.
Main_Return ==
  /\ pc = "return"
  /\ pc' = "exit"
  /\ status' = 0
  /\ UNCHANGED <<fs, argv, args, df, loaded, out, error, ran, call, ret>>

Next ==
  \/ Main_CheckFile
  \/ Main_Load
  \/ Main_Default
  \/ Main_Summary
  \/ Main_Context
  \/ Main_Around
  \/ Main_Return

Spec == Init /\ [][Next]_vars

\* The same program on the tables that differ in altitude and mass.
SpecAlt == InitAlt /\ [][Next]_vars

\* --------------------------------------------------------------- detectors
\* The detectors called on their own, as a library: any table, any argument.
RowsV == {Row(0, 5, v, 1, 0, 1) : v \in {-20, 0, 11, 20}}

RowsH == {Row(0, 5, 0, 1, h, 1) : h \in {-2, 0, 1, 3}}

RowsT == {Row(t, 5, 0, 1, 0, 1) : t \in {-1, 0, 3, 5}}

FnTables == TablesOver(RowsV) \cup TablesOver(RowsH) \cup TablesOver(RowsT)

LaunchThresholds == {-25, -5, LaunchDefault}

Weights == {-1, 0, 1, 2}

Ratios == {-1, 1, 2, RatioDefault}

Times == {0, 2}

Windows == {-1, 0, 3, WindowDefault}

InitFn ==
  /\ fs = [p \in {} |-> << >>]
  /\ argv = [file |-> "", summary |-> FALSE, context |-> FALSE, around |-> None,
             window |-> WindowDefault]
  /\ args = argv
  /\ df \in FnTables
  /\ loaded = TRUE
  /\ pc = "lib"
  /\ out = << >>
  /\ status = -1
  /\ error = "none"
  /\ ran = << >>
  /\ call = NoCall
  /\ ret = << >>

Called(fn, a, b) == [fn |-> fn, a |-> a, b |-> b]

Call_find_launches ==
  /\ pc = "lib"
  /\ \E k \in LaunchThresholds :
       /\ call' = Called("find_launches", k, 0)
       /\ ret' = find_launches(df, k)
  /\ UNCHANGED <<fs, argv, args, df, loaded, pc, out, status, error, ran>>

Call_find_force_spikes ==
  /\ pc = "lib"
  /\ \E w \in Weights, r \in Ratios :
       /\ call' = Called("find_force_spikes", w, r)
       /\ ret' = find_force_spikes(df, w, r)
  /\ UNCHANGED <<fs, argv, args, df, loaded, pc, out, status, error, ran>>

Call_get_context ==
  /\ pc = "lib"
  /\ \E time \in Times, window \in Windows :
       /\ call' = Called("get_context", time, window)
       /\ ret' = get_context(df, time, window)
  /\ UNCHANGED <<fs, argv, args, df, loaded, pc, out, status, error, ran>>

NextFn ==
  \/ Call_find_launches
  \/ Call_find_force_spikes
  \/ Call_get_context

SpecFn == InitFn /\ [][NextFn]_vars

\* ------------------------------------------------------------------ claims
Ran(name) == \E i \in DOMAIN ran : ran[i] = name

HasTag(tag) == \E i \in DOMAIN out : out[i].tag = tag

LineOf(tag) == out[CHOOSE i \in DOMAIN out : out[i].tag = tag]

\* The number a block of the report gives, 0 when the block is not printed.
Reported(tag) == IF HasTag(tag) THEN LineOf(tag).n ELSE 0

\* The j-th smallest element of a set of row positions.
Kth(S, j) == CHOOSE i \in S : Cardinality({x \in S : x <= i}) = j

\* The rows of d at the positions S, in the order of d.
RowsAt(d, S) == [j \in 1..Cardinality(S) |-> d[Kth(S, j)]]

FileExists == argv.file \in DOMAIN fs

NoneGiven == ~argv.summary /\ ~argv.context /\ argv.around = None

OnlyAround == ~argv.summary /\ ~argv.context /\ argv.around # None

\* C1: the summary and the problem-context report run by default exactly when
\* none of --summary, --context, --around was given; with only --around t,
\* for every t (0 included), the around-time report runs alone.
C1_DefaultIffNoneGiven ==
  (pc = "exit" /\ status = 0) =>
    /\ (Ran("print_summary") <=> (argv.summary \/ NoneGiven))
    /\ (Ran("print_problem_context") <=> (argv.context \/ NoneGiven))
    /\ (OnlyAround => ran = <<"load_telemetry", "print_around_time">>)

\* C2: when the path does not exist, main() prints one error naming the path,
\* exits with a non-zero status, and neither loads the file nor runs a report.
C2_MissingFile ==
  (~FileExists /\ pc # "start") =>
    /\ pc = "exit"
    /\ status \notin {-1, 0}
    /\ Len(out) = 1 /\ out[1].tag = "ERROR" /\ out[1].path = argv.file
    /\ ~loaded
    /\ ran = << >>

C2_Witness ==
  ~FileExists /\ pc = "exit" /\ argv.summary /\ argv.context /\ argv.around # None

\* C3: when the file exists and holds at least one row, every selected report
\* finishes and the exit status is 0, whatever the rows' grounded and altitude.
C3_ExitsZero ==
  (pc = "exit" /\ FileExists /\ Len(fs[argv.file]) >= 1) =>
    /\ status = 0
    /\ (args.summary => Ran("print_summary"))
    /\ (args.context => Ran("print_problem_context"))
    /\ (args.around # None => Ran("print_around_time"))

\* The counts of the problem-detection block, with the force-spike ratio given.
SummaryCounts(ratio) ==
  HasTag("PROBLEM_DETECTION") =>
    /\ Reported("HIGH_VVEL") = Cardinality({i \in DOMAIN df : df[i].v_vel > 15})
    /\ Reported("VELOCITY_SPIKES") =
         Cardinality({i \in 2..Len(df) : df[i].v_vel - df[i - 1].v_vel > 10})
    /\ Reported("FORCE_SPIKES") =
         Cardinality({i \in DOMAIN df :
                        df[i].hover_mag > df[Len(df)].mass * 981 * ratio})

\* C4 (as stated): the summary counts rows with v_vel > 15.0, rows with v_vel
\* delta > 10.0, and rows with hover_mag > weight * 3.0, the default ratio.
C4_DefaultRatio == SummaryCounts(3)

\* C4 (amended): the summary counts rows with v_vel > 15.0, rows with v_vel
\* delta > 10.0, and rows with hover_mag > weight * 5.0, where weight is the
\* mass of the last row * 9.81.
C4_SummaryCounts == SummaryCounts(5)

C4_Witness ==
  /\ HasTag("HIGH_VVEL") /\ HasTag("VELOCITY_SPIKES")
  /\ HasTag("FORCE_SPIKES")
  /\ Len(df) = 2 /\ df[1].mass # df[2].mass
  /\ \E i \in DOMAIN df : df[i].hover_mag > df[Len(df)].mass * 981 * 3
                          /\ ~(df[i].hover_mag > df[Len(df)].mass * 981 * 5)

SpikePositions(w, r) == {i \in DOMAIN df : df[i].hover_mag > w * r}

\* The result of find_force_spikes is the rows with hover_mag > w*r in row
\* order, and no larger ratio gives more rows, for the weights in W.
ForceSpikes(W) ==
  call.fn = "find_force_spikes" =>
    /\ ret = RowsAt(df, SpikePositions(call.a, call.b))
    /\ call.a \in W =>
         \A r2 \in Ratios :
           call.b <= r2 => Len(find_force_spikes(df, call.a, r2)) <= Len(ret)

\* C5 (as stated): for all weights w and ratios r1 <= r2, find_force_spikes
\* returns exactly the rows with hover_mag > w*r in row order, and the result
\* for r2 has no more rows than the result for r1.
C5_MonotonicAllWeights == ForceSpikes(Weights)

\* C5 (amended): find_force_spikes returns exactly the rows with
\* hover_mag > w*r in row order, for all weights; for weights w >= 0 and
\* ratios r1 <= r2 the result for r2 has no more rows than the result for r1.
C5_MonotonicNonNegative == ForceSpikes({w \in Weights : w >= 0})

C5_Witness ==
  /\ call.fn = "find_force_spikes"
  /\ call.a > 0
  /\ Len(ret) = 2
  /\ \E r2 \in Ratios : call.b < r2 /\ Len(find_force_spikes(df, call.a, r2)) = 1

ContextPositions(time, window) ==
  {i \in DOMAIN df : time - window <= df[i].t /\ df[i].t <= time + window}

\* C6: get_context returns exactly the rows with time-window <= t <=
\* time+window, both bounds included, in row order; every row returned for a
\* window is returned for every wider window.
C6_ContextWindow ==
  call.fn = "get_context" =>
    /\ ret = RowsAt(df, ContextPositions(call.a, call.b))
    /\ \A w2 \in Windows :
         call.b <= w2 =>
           LET wide == get_context(df, call.a, w2)
           IN  /\ Len(ret) <= Len(wide)
               /\ \A j \in DOMAIN ret : \E k \in DOMAIN wide : wide[k] = ret[j]

C6_Witness ==
  /\ call.fn = "get_context"
  /\ call.b > 0
  /\ Len(df) = 2 /\ Len(ret) = 1
  /\ ret[1].t = call.a + call.b
  /\ \E w2 \in Windows : call.b < w2 /\ Len(get_context(df, call.a, w2)) = 2

LaunchPositions(k) == {i \in 2..Len(df) : df[i].v_vel - df[i - 1].v_vel > k}

\* C7: find_launches returns, in row order, exactly the rows at positions
\* i >= 1 (0-based) whose v_vel exceeds the previous row's by more than k,
\* each with that delta; the first row is never returned, whatever k is.
C7_LaunchDelta ==
  call.fn = "find_launches" =>
    LET S == LaunchPositions(call.a)
    IN  /\ Len(ret) = Cardinality(S)
        /\ \A j \in DOMAIN ret :
             LET i == Kth(S, j)
             IN  /\ \A c \in DOMAIN df[i] : ret[j][c] = df[i][c]
                 /\ ret[j].v_vel_delta = <<df[i].v_vel - df[i - 1].v_vel>>

C7_Witness ==
  /\ call.fn = "find_launches"
  /\ call.a < 0
  /\ Len(df) = 2
  /\ df[1].v_vel > call.a
  /\ df[2].v_vel - df[1].v_vel > call.a
  /\ Len(ret) = 1

\* The place of a block in the fixed order of the output.
Rank(tag) ==
  CASE tag = "ERROR" -> 0
    [] tag = "HEADER" -> 1
    [] tag = "TIME_RANGE" -> 2
    [] tag = "ALTITUDE" -> 3
    [] tag = "ALT_STATS" -> 4
    [] tag = "NO_RAYCAST" -> 5
    [] tag = "VELOCITY" -> 6
    [] tag = "FORCES" -> 7
    [] tag = "GROUNDED" -> 8
    [] tag = "PROBLEM_DETECTION" -> 9
    [] tag = "HIGH_VVEL" -> 10
    [] tag = "FORCE_SPIKES" -> 11
    [] tag = "VELOCITY_SPIKES" -> 12
    [] tag = "CTX_HIGH" -> 13
    [] tag = "CTX_SPIKE" -> 14
    [] tag = "AROUND" -> 15
    [] tag = "NO_DATA" -> 15

\* C8: the summary prints header, time range, altitude, velocity, forces,
\* grounded, problem detection in that order, the detection lines in the
\* order high-velocity, force-spikes, launch-deltas; all summary output comes
\* before all problem-context output, which comes before all around-time output.
C8_OutputOrder ==
  /\ \A i, j \in DOMAIN out : i < j => Rank(out[i].tag) < Rank(out[j].tag)
  /\ HasTag("PROBLEM_DETECTION") =>
       \A tag \in {"HEADER", "TIME_RANGE", "ALTITUDE", "NO_RAYCAST", "VELOCITY",
                   "FORCES", "GROUNDED"} : HasTag(tag)

C8_Witness ==
  /\ pc = "exit" /\ status = 0
  /\ \A tag \in {"HIGH_VVEL", "FORCE_SPIKES", "VELOCITY_SPIKES", "CTX_HIGH",
                 "CTX_SPIKE", "AROUND"} : HasTag(tag)

\* C9: in the summary every row is either used for the altitude statistics or
\* counted as no raycast hit: the two counts add up to the sample count.
C9_AltitudePartition ==
  (argv.summary /\ HasTag("NO_RAYCAST") /\ pc = "exit" /\ status = 0) =>
    Reported("ALT_STATS") + Reported("NO_RAYCAST") = Len(df)

Abs(x) == IF x < 0 THEN -x ELSE x

\* One section of the problem-context report, for the rows at `matching`.
SectionOK(tag, matching) ==
  /\ HasTag(tag) <=> matching # {}
  /\ Cardinality({i \in DOMAIN out : out[i].tag = tag}) <= 1
  /\ matching # {} =>
       LET l == LineOf(tag)
           first == Kth(matching, 1)
       IN  /\ l.time = df[first].t
           /\ \A j \in DOMAIN l.rows : Abs(l.rows[j].t - l.time) <= 3
           /\ l.rows # << >>
           /\ \E j \in DOMAIN l.rows :
                \A c \in {"t", "altitude", "v_vel", "grounded", "hover_mag"} :
                  l.rows[j][c] = df[first][c]

ContextDone == Ran("print_problem_context") /\ Len(df) > 0

\* C10: the problem-context report prints a section for a detector exactly
\* when it has a match, centred on the first matching row's t, with every
\* printed row within 0.3 s of it and the matching row among them; the
\* high-velocity section comes before the force-spike section.
C10_ProblemContext ==
  ContextDone =>
    /\ SectionOK("CTX_HIGH", {i \in DOMAIN df : df[i].v_vel > 15})
    /\ SectionOK("CTX_SPIKE",
                 {i \in DOMAIN df : df[i].hover_mag > df[Len(df)].mass * 981 * 5})
    /\ \A i, j \in DOMAIN out :
         (out[i].tag = "CTX_HIGH" /\ out[j].tag = "CTX_SPIKE") => i < j

C10_Witness ==
  /\ ContextDone
  /\ HasTag("CTX_HIGH") /\ HasTag("CTX_SPIKE")
  /\ Len(df) = 2
  /\ df[1].v_vel > 15 /\ df[2].v_vel > 15
  /\ df[2].t - df[1].t > 3
  /\ Len(LineOf("CTX_HIGH").rows) = 1

====
